---- MODULE Spec2Model ----
(***************************************************************************)
(* Asset Allocation Dashboard (src/src/app.py, src/utils.py, src/app.py).  *)
(*                                                                         *)
(* Numbers are fixed-point integers: the Python float x is the integer     *)
(* x * Scale.  Every input of the model is chosen so that each product and *)
(* quotient the code forms is a whole number of 1/Scale units, so the      *)
(* arithmetic below is exact; binary floating-point rounding is not part   *)
(* of the model.                                                           *)
(***************************************************************************)
EXTENDS Integers, Sequences, FiniteSets, TLC

VARIABLES
    call,                       \* arguments of one call of a function under study
    ret,                        \* its result, or Pending
    config_json,                \* the file config.json
    config,                     \* main: config = load_config()
    show_active_weights,        \* main: the st.toggle widget
    moderate_equities_active,   \* main: the st.number_input widget
    equities_style_active,      \* main: the sliders of the "Equities (%)" group
    fixed_income_sector_active, \* main: the sliders of the "Fixed Income (%)" group
    validation,                 \* st.error / st.success emitted per slider group
    level_1_allocation_df,      \* main: level_1_allocation_df after the pass
    level_1_shown,              \* table handed to st.dataframe for level 1
    equities_df,                \* main: equities_df
    fixed_income_df,            \* main: fixed_income_df
    df_total_allocations,       \* main: df_total_allocations after the pass
    total_shown,                \* table handed to st.dataframe for the totals
    raised                      \* main: the exception that ended the pass, or "none"

callVars == <<call, ret>>
mainVars == <<config_json, config, show_active_weights, moderate_equities_active,
              equities_style_active, fixed_income_sector_active, validation,
              level_1_allocation_df, level_1_shown, equities_df,
              fixed_income_df, df_total_allocations, total_shown, raised>>
vars == <<call, ret, config_json, config, show_active_weights, moderate_equities_active,
          equities_style_active, fixed_income_sector_active, validation,
          level_1_allocation_df, level_1_shown, equities_df,
          fixed_income_df, df_total_allocations, total_shown, raised>>

(***************************************************************************)
(* Bounds of the model.                                                    *)
(***************************************************************************)
ActiveBound == 2    \* |active weight| of a direct compute_tactical_allocations call
DeltaBound == 1     \* |active weight| of a direct compute_level_2_... call
SliderBound == 1    \* |slider value| explored in main
InputBound == 1     \* |number input value| explored in main

(***************************************************************************)
(* Program constants.                                                      *)
(***************************************************************************)
Percent == 100      \* the "/ 100" of compute_total_allocations
MinValue == -10     \* min_value of the number input and of the sliders
MaxValue == 10      \* max_value of the number input and of the sliders

(***************************************************************************)
(* Fixed-point numbers.                                                    *)
(***************************************************************************)
Scale == 2 * Percent
Num(x) == x * Scale
Half(x) == (x * Scale) \div 2          \* x/2 for a whole x, e.g. Half(3) is 1.5
Mul(a, b) == (a * b) \div Scale
Div(a, b) == (a * Scale) \div b
NaN == 0 - Scale * Scale * Scale       \* the missing value of an unset cell
Add(a, b) == IF a = NaN \/ b = NaN THEN NaN ELSE a + b
Sub(a, b) == IF a = NaN \/ b = NaN THEN NaN ELSE a - b

(***************************************************************************)
(* Sequences and dicts.  A dict keeps its insertion order: keys is the     *)
(* order, at the mapping.                                                  *)
(***************************************************************************)
Range(s) == {s[i] : i \in 1..Len(s)}
RECURSIVE SumSeq(_)
SumSeq(s) == IF s = <<>> THEN 0 ELSE s[1] + SumSeq(Tail(s))
Dict(ks, f) == [keys |-> ks, at |-> [k \in Range(ks) |-> f[k]]]
EmptyDict == [keys |-> <<>>, at |-> <<>>]
Values(d) == [i \in 1..Len(d.keys) |-> d.at[d.keys[i]]]
Has(d, k) == k \in DOMAIN d.at
Put(d, k, v) ==
    [keys |-> IF Has(d, k) THEN d.keys ELSE Append(d.keys, k),
     at |-> [x \in DOMAIN d.at \cup {k} |-> IF x = k THEN v ELSE d.at[x]]]
Ok(v) == [err |-> "none", val |-> v]
Raise(e) == [err |-> e, val |-> EmptyDict]

(***************************************************************************)
(* Strings: str.lower() and str.replace(" ", "_") work on the characters   *)
(* of a label.  Spell gives the characters of each label the model uses.   *)
(***************************************************************************)
Labels == {"Equities", "Fixed Income", "Cash", "equities", "fixed_income",
           "cash", "fixed income", "Fixed_Income"}
Spell(s) ==
    CASE s = "Equities" -> <<"E", "q", "u", "i", "t", "i", "e", "s">>
      [] s = "equities" -> <<"e", "q", "u", "i", "t", "i", "e", "s">>
      [] s = "Fixed Income" -> <<"F", "i", "x", "e", "d", " ", "I", "n", "c", "o", "m", "e">>
      [] s = "fixed income" -> <<"f", "i", "x", "e", "d", " ", "i", "n", "c", "o", "m", "e">>
      [] s = "Fixed_Income" -> <<"F", "i", "x", "e", "d", "_", "I", "n", "c", "o", "m", "e">>
      [] s = "fixed_income" -> <<"f", "i", "x", "e", "d", "_", "i", "n", "c", "o", "m", "e">>
      [] s = "Cash" -> <<"C", "a", "s", "h">>
      [] s = "cash" -> <<"c", "a", "s", "h">>
Unspell(cs) == CHOOSE s \in Labels : Spell(s) = cs
lower_char(c) ==
    CASE c = "E" -> "e" [] c = "F" -> "f" [] c = "I" -> "i" [] c = "C" -> "c"
      [] OTHER -> c
str_lower(cs) == [i \in 1..Len(cs) |-> lower_char(cs[i])]
str_replace(cs, old, new) == [i \in 1..Len(cs) |-> IF cs[i] = old THEN new ELSE cs[i]]
(* asset.lower().replace(" ", "_") *)
active_weight_key(asset) == Unspell(str_replace(str_lower(Spell(asset)), " ", "_"))

(***************************************************************************)
(* main: the level-1 active weights built from the one number input        *)
(***************************************************************************)
(* fixed income tilted the same way as equities *)
moderate_active_weight_same_sign(number_input) ==
    [equities |-> number_input,
     fixed_income |-> number_input,
     cash |-> Num(0)]

moderate_active_weight(number_input) ==
    [equities |-> number_input,
     fixed_income |-> Mul(Num(-1), number_input),
     cash |-> Num(0)]

(***************************************************************************)
(* compute_tactical_allocations                                            *)
(***************************************************************************)
(* the tilt added without the profile's multiplier *)
compute_tactical_allocations_unscaled(strategic_allocations, multipliers, profiles, active_weights) ==
    IF \E asset \in Range(strategic_allocations.keys) :
           active_weight_key(asset) \notin DOMAIN active_weights
    THEN Raise("KeyError")
    ELSE Ok(Dict(strategic_allocations.keys,
                 [asset \in Range(strategic_allocations.keys) |->
                    [i \in 1..Len(profiles) |->
                       strategic_allocations.at[asset][i]
                       + active_weights[active_weight_key(asset)]]]))

compute_tactical_allocations(strategic_allocations, multipliers, profiles, active_weights) ==
    IF \E asset \in Range(strategic_allocations.keys) :
           active_weight_key(asset) \notin DOMAIN active_weights
    THEN Raise("KeyError")
    ELSE Ok(Dict(strategic_allocations.keys,
                 [asset \in Range(strategic_allocations.keys) |->
                    [i \in 1..Len(profiles) |->
                       strategic_allocations.at[asset][i]
                       + Mul(multipliers.at[profiles[i]],
                             active_weights[active_weight_key(asset)])]]))

(***************************************************************************)
(* input_active_weights: the sliders start at default_weights and hold     *)
(* what the user set; the sum check emits a status and the slider values   *)
(* are returned.                                                           *)
(***************************************************************************)
(* a sum check with a tolerance of one point *)
weights_sum_status_tolerant(active_weights_df) ==
    LET total == SumSeq(Values(active_weights_df)) IN
    IF total > Num(1) \/ total < Num(-1) THEN "error" ELSE "success"

weights_sum_status(active_weights_df) ==
    IF SumSeq(Values(active_weights_df)) # 0 THEN "error" ELSE "success"

(* weights that fail the check are dropped and every weight returns to zero *)
input_active_weights_reset(sliders) ==
    [status |-> weights_sum_status(sliders),
     weights |-> IF weights_sum_status(sliders) = "error"
                 THEN Dict(sliders.keys, [k \in Range(sliders.keys) |-> Num(0)])
                 ELSE sliders]

input_active_weights(sliders) ==
    [status |-> weights_sum_status(sliders), weights |-> sliders]

(* src/app.py: the same check, inline, on stock_style_active_df *)
stock_style_status(stock_style_active_df) ==
    IF SumSeq(Values(stock_style_active_df)) # 0 THEN "error" ELSE "success"

(***************************************************************************)
(* compute_level_2_tactical_allocations: the comprehension walks the keys  *)
(* of base_allocations; a key active_weights lacks raises KeyError and the *)
(* mapping built so far is dropped.                                        *)
(***************************************************************************)
RECURSIVE level_2_comprehension(_, _, _, _)
level_2_comprehension(base_allocations, active_weights, i, acc) ==
    IF i > Len(base_allocations.keys) THEN Ok(acc)
    ELSE LET key == base_allocations.keys[i] IN
         IF ~Has(active_weights, key) THEN Raise("KeyError")
         ELSE level_2_comprehension(base_allocations, active_weights, i + 1,
                  Put(acc, key, base_allocations.at[key] + active_weights.at[key]))

(* partial application: a key active_weights lacks keeps its baseline *)
RECURSIVE level_2_partial(_, _, _, _)
level_2_partial(base_allocations, active_weights, i, acc) ==
    IF i > Len(base_allocations.keys) THEN Ok(acc)
    ELSE LET key == base_allocations.keys[i] IN
         level_2_partial(base_allocations, active_weights, i + 1,
             Put(acc, key, base_allocations.at[key]
                           + IF Has(active_weights, key) THEN active_weights.at[key] ELSE 0))

compute_level_2_tactical_allocations_partial(base_allocations, active_weights) ==
    level_2_partial(base_allocations, active_weights, 1, EmptyDict)

compute_level_2_tactical_allocations(base_allocations, active_weights) ==
    level_2_comprehension(base_allocations, active_weights, 1, EmptyDict)

(***************************************************************************)
(* DataFrames: index is the row labels in order, columns the column labels *)
(* in order, data[row][column] the cell.  A level-1 or total table has the *)
(* columns <<profile, type>>; a level-2 table has "Strategic", "Tactical". *)
(***************************************************************************)
Frame(idx, cols, cells) ==
    [index |-> idx, columns |-> cols,
     data |-> [r \in Range(idx) |-> [c \in Range(cols) |-> cells[r][c]]]]

(* df[column] = values: overwrites the column, or appends it as the last one *)
set_column(df, column, values) ==
    [index |-> df.index,
     columns |-> IF column \in Range(df.columns) THEN df.columns
                 ELSE Append(df.columns, column),
     data |-> [r \in Range(df.index) |->
                 [c \in Range(df.columns) \cup {column} |->
                    IF c = column THEN values[r] ELSE df.data[r][c]]]]

(* df.loc[label] = row: overwrites the row, or appends it as the last one *)
set_row(df, label, row) ==
    [index |-> IF label \in Range(df.index) THEN df.index
               ELSE Append(df.index, label),
     columns |-> df.columns,
     data |-> [r \in Range(df.index) \cup {label} |->
                 IF r = label THEN [c \in Range(df.columns) |-> row[c]]
                 ELSE df.data[r]]]

(* df[new_columns]: a new table holding the named columns in that order *)
select_columns(df, new_columns) ==
    [index |-> df.index, columns |-> new_columns,
     data |-> [r \in Range(df.index) |->
                 [c \in Range(new_columns) |-> df.data[r][c]]]]

(* the profiles that carry a column of type typ, in column order *)
RECURSIVE xs_profiles(_, _)
xs_profiles(columns, typ) ==
    IF columns = <<>> THEN <<>>
    ELSE IF columns[1][2] = typ
         THEN <<columns[1][1]>> \o xs_profiles(Tail(columns), typ)
         ELSE xs_profiles(Tail(columns), typ)

(***************************************************************************)
(* utils.add_difference_column: writes the Difference columns into the     *)
(* table it is given (df) and returns a reordered copy (result).           *)
(***************************************************************************)
RECURSIVE assign_differences(_, _, _, _)
assign_differences(df, profiles, difference, diff_label) ==
    IF profiles = <<>> THEN df
    ELSE assign_differences(
             set_column(df, <<profiles[1], diff_label>>,
                        [r \in Range(df.index) |-> difference[r][profiles[1]]]),
             Tail(profiles), difference, diff_label)

RECURSIVE interleaved_columns(_, _, _, _)
interleaved_columns(profiles, col1_label, col2_label, diff_label) ==
    IF profiles = <<>> THEN <<>>
    ELSE <<<<profiles[1], col1_label>>, <<profiles[1], col2_label>>,
           <<profiles[1], diff_label>>>>
         \o interleaved_columns(Tail(profiles), col1_label, col2_label, diff_label)

(* the difference computed as col1 - col2 *)
add_difference_column_reversed(df, profiles) ==
    LET difference ==
            [r \in Range(df.index) |->
               [p \in Range(xs_profiles(df.columns, "Tactical"))
                      \cap Range(xs_profiles(df.columns, "Strategic")) |->
                  Sub(df.data[r][<<p, "Strategic">>], df.data[r][<<p, "Tactical">>])]]
        mutated == assign_differences(df, profiles, difference, "Difference")
    IN  [df |-> mutated,
         result |-> select_columns(mutated,
                        interleaved_columns(profiles, "Strategic", "Tactical", "Difference"))]

add_difference_column(df, profiles) ==
    LET difference ==
            [r \in Range(df.index) |->
               [p \in Range(xs_profiles(df.columns, "Tactical"))
                      \cap Range(xs_profiles(df.columns, "Strategic")) |->
                  Sub(df.data[r][<<p, "Tactical">>], df.data[r][<<p, "Strategic">>])]]
        mutated == assign_differences(df, profiles, difference, "Difference")
    IN  [df |-> mutated,
         result |-> select_columns(mutated,
                        interleaved_columns(profiles, "Strategic", "Tactical", "Difference"))]

(***************************************************************************)
(* utils.display_asset_allocations: df is the caller's table afterwards,   *)
(* shown the table that is styled and handed to st.dataframe, raised the   *)
(* exception of the styling's row lookup.                                  *)
(***************************************************************************)
HighlightRows == <<"Stocks", "Bonds", "Cash">>

highlight_lookup(df, highlight_level_1) ==
    IF highlight_level_1 /\ ~(Range(HighlightRows) \subseteq Range(df.index))
    THEN "KeyError" ELSE "none"

display_asset_allocations(df, profiles, show, highlight_level_1) ==
    IF show
    THEN LET r == add_difference_column(df, profiles) IN
         [df |-> r.df, shown |-> r.result,
          raised |-> highlight_lookup(r.result, highlight_level_1)]
    ELSE [df |-> df, shown |-> df,
          raised |-> highlight_lookup(df, highlight_level_1)]

(***************************************************************************)
(* display_level_1_allocations                                             *)
(***************************************************************************)
RECURSIVE strategic_tactical_columns(_)
strategic_tactical_columns(profiles) ==
    IF profiles = <<>> THEN <<>>
    ELSE <<<<profiles[1], "Strategic">>, <<profiles[1], "Tactical">>>>
         \o strategic_tactical_columns(Tail(profiles))

Position(s, x) == CHOOSE i \in 1..Len(s) : s[i] = x

display_level_1_allocations(strategic_allocations, tactical_allocations, profiles, show) ==
    LET columns == strategic_tactical_columns(profiles)
        level_1_data ==
            [asset \in Range(strategic_allocations.keys) |->
               [c \in Range(columns) |->
                  IF c[2] = "Strategic"
                  THEN strategic_allocations.at[asset][Position(profiles, c[1])]
                  ELSE tactical_allocations.at[asset][Position(profiles, c[1])]]]
        level_1_allocation_frame ==
            Frame(strategic_allocations.keys, columns, level_1_data)
    IN  display_asset_allocations(level_1_allocation_frame, profiles, show, FALSE)

(***************************************************************************)
(* display_level_2_allocations: one table per group                        *)
(***************************************************************************)
level_2_frame(strategic, tactical) ==
    Frame(strategic.keys, <<"Strategic", "Tactical">>,
          [k \in Range(strategic.keys) |->
             [c \in {"Strategic", "Tactical"} |->
                IF c = "Strategic" THEN strategic.at[k] ELSE tactical.at[k]]])

(***************************************************************************)
(* compute_total_allocations                                               *)
(***************************************************************************)
RECURSIVE copy_level_1_rows(_, _, _)
copy_level_1_rows(total, level_1_df, classes) ==
    IF classes = <<>> THEN total
    ELSE copy_level_1_rows(set_row(total, classes[1], level_1_df.data[classes[1]]),
                           level_1_df, Tail(classes))

(* every type re-based on the parent's Strategic value *)
rebase_type_strategic_parent(total, level_2_df, label, parent, typ) ==
    set_row(total, label,
            [c \in Range(total.columns) |->
               IF c[2] = typ
               THEN Div(Mul(level_2_df.data[label][typ],
                            total.data[parent][<<c[1], "Strategic">>]),
                        Num(Percent))
               ELSE total.data[label][c]])

(* own percentage * parent value / 100, in the columns of type typ *)
rebase_type(total, level_2_df, label, parent, typ) ==
    set_row(total, label,
            [c \in Range(total.columns) |->
               IF c[2] = typ
               THEN Div(Mul(level_2_df.data[label][typ], total.data[parent][c]),
                        Num(Percent))
               ELSE total.data[label][c]])

(* the sub-class row holds the own percentage itself *)
rebase_rows_unscaled(total, level_2_df, labels, parent) ==
    [index |-> total.index, columns |-> total.columns,
     data |-> [r \in Range(total.index) |->
                 IF r \in Range(labels)
                 THEN [c \in Range(total.columns) |->
                         IF c[2] \in {"Strategic", "Tactical"}
                         THEN level_2_df.data[r][c[2]] ELSE total.data[r][c]]
                 ELSE total.data[r]]]

RECURSIVE rebase_rows(_, _, _, _)
rebase_rows(total, level_2_df, labels, parent) ==
    IF labels = <<>> THEN total
    ELSE rebase_rows(
             rebase_type(rebase_type(total, level_2_df, labels[1], parent, "Strategic"),
                         level_2_df, labels[1], parent, "Tactical"),
             level_2_df, Tail(labels), parent)

(* the level-1 rows first, the sub-class rows after them *)
compute_total_allocations_grouped(level_1_df, equities_frame, fixed_income_frame, strategic_allocations) ==
    LET idx == <<"Equities", "Fixed Income", "Cash">> \o equities_frame.index
               \o fixed_income_frame.index
        empty == Frame(idx, level_1_df.columns,
                       [r \in Range(idx) |-> [c \in Range(level_1_df.columns) |-> NaN]])
        with_level_1 == copy_level_1_rows(empty, level_1_df, strategic_allocations.keys)
        with_equities == rebase_rows(with_level_1, equities_frame,
                                     equities_frame.index, "Equities")
    IN  rebase_rows(with_equities, fixed_income_frame,
                    fixed_income_frame.index, "Fixed Income")

compute_total_allocations(level_1_df, equities_frame, fixed_income_frame, strategic_allocations) ==
    LET idx == <<"Equities">> \o equities_frame.index \o <<"Fixed Income">>
               \o fixed_income_frame.index \o <<"Cash">>
        empty == Frame(idx, level_1_df.columns,
                       [r \in Range(idx) |-> [c \in Range(level_1_df.columns) |-> NaN]])
        with_level_1 == copy_level_1_rows(empty, level_1_df, strategic_allocations.keys)
        with_equities == rebase_rows(with_level_1, equities_frame,
                                     equities_frame.index, "Equities")
    IN  rebase_rows(with_equities, fixed_income_frame,
                    fixed_income_frame.index, "Fixed Income")

(***************************************************************************)
(* config.json as main reads it.  ConfigA holds the tables of the          *)
(* end-to-end scenario; ConfigB is a second session's config.              *)
(***************************************************************************)
Level1Classes == <<"Equities", "Fixed Income", "Cash">>

ConfigA ==
    [multipliers |->
        Dict(<<"Aggressive", "Moderate", "Conservative">>,
             "Aggressive" :> Half(3) @@ "Moderate" :> Num(1) @@ "Conservative" :> Half(1)),
     strategic_allocations |->
        Dict(Level1Classes,
             "Equities" :> <<Num(70), Num(60), Num(50)>>
             @@ "Fixed Income" :> <<Num(25), Num(35), Num(45)>>
             @@ "Cash" :> <<Num(5), Num(5), Num(5)>>),
     equities_size_style |->
        Dict(<<"Large Cap Growth", "Large Cap Value">>,
             "Large Cap Growth" :> Num(30) @@ "Large Cap Value" :> Num(70)),
     fixed_income_sector |->
        Dict(<<"Mortgage Backed", "High Yield">>,
             "Mortgage Backed" :> Num(60) @@ "High Yield" :> Num(40)),
     default_equities_active_weight |->
        Dict(<<"Large Cap Growth", "Large Cap Value">>,
             "Large Cap Growth" :> Num(0) @@ "Large Cap Value" :> Num(0)),
     default_fixed_income_active_weight |->
        Dict(<<"Mortgage Backed", "High Yield">>,
             "Mortgage Backed" :> Num(0) @@ "High Yield" :> Num(0)),
     moderate_equities_active |-> Num(2)]

ConfigB ==
    [multipliers |->
        Dict(<<"Conservative", "Growth">>,
             "Conservative" :> Half(1) @@ "Growth" :> Num(2)),
     strategic_allocations |->
        Dict(Level1Classes,
             "Equities" :> <<Num(40), Num(80)>>
             @@ "Fixed Income" :> <<Num(50), Num(18)>>
             @@ "Cash" :> <<Num(10), Num(2)>>),
     equities_size_style |->
        Dict(<<"Large Cap Growth", "Small Value", "International: Emerging">>,
             "Large Cap Growth" :> Num(50) @@ "Small Value" :> Num(30)
             @@ "International: Emerging" :> Num(20)),
     fixed_income_sector |->
        Dict(<<"Tsys, CDs & GSEs">>, "Tsys, CDs & GSEs" :> Num(100)),
     default_equities_active_weight |->
        Dict(<<"Large Cap Growth", "Small Value", "International: Emerging">>,
             "Large Cap Growth" :> Num(1) @@ "Small Value" :> Num(0)
             @@ "International: Emerging" :> Num(-1)),
     default_fixed_income_active_weight |->
        Dict(<<"Tsys, CDs & GSEs">>, "Tsys, CDs & GSEs" :> Num(0)),
     moderate_equities_active |-> Num(0)]

Configs == {ConfigA, ConfigB}

(***************************************************************************)
(* Direct calls of the functions: the arguments are drawn in CallInit, the *)
(* action applies the function.                                            *)
(***************************************************************************)
Pending == [err |-> "pending", val |-> EmptyDict]

WeightRange(b) == {Num(x) : x \in (0 - b)..b}

TacticalCalls ==
    {[fn |-> "compute_tactical_allocations",
      origin |-> "direct",
      strategic_allocations |-> c.strategic_allocations,
      multipliers |-> c.multipliers,
      profiles |-> c.multipliers.keys,
      active_weights |-> [equities |-> e, fixed_income |-> f, cash |-> h]] :
        c \in Configs, e \in WeightRange(ActiveBound),
        f \in WeightRange(ActiveBound), h \in WeightRange(ActiveBound)}

(* the call main makes, lines 247-260, for every whole value of the number input *)
MainTacticalCalls ==
    {[fn |-> "compute_tactical_allocations",
      origin |-> "main",
      strategic_allocations |-> c.strategic_allocations,
      multipliers |-> c.multipliers,
      profiles |-> c.multipliers.keys,
      active_weights |-> moderate_active_weight(Num(v))] :
        c \in Configs, v \in MinValue..MaxValue}

SubClasses == <<"Large Cap Growth", "Small Value", "International: Emerging">>
RECURSIVE Restrict(_, _)
(* the keys of ks that lie in S, in the order of ks *)
Restrict(ks, S) ==
    IF ks = <<>> THEN <<>>
    ELSE IF ks[1] \in S THEN <<ks[1]>> \o Restrict(Tail(ks), S)
         ELSE Restrict(Tail(ks), S)

Level2Calls ==
    {[fn |-> "compute_level_2_tactical_allocations",
      base_allocations |-> b,
      active_weights |-> Dict(Restrict(SubClasses, S), w)] :
        b \in {ConfigB.equities_size_style,
               Dict(<<"Large Cap Growth", "Small Value">>,
                    "Large Cap Growth" :> Num(60) @@ "Small Value" :> Num(40))},
        S \in SUBSET Range(SubClasses),
        w \in [Range(SubClasses) -> WeightRange(DeltaBound)]}

ValidateCalls ==
    {[fn |-> "input_active_weights",
      sliders |-> Dict(<<"a", "b">>, "a" :> Num(x) @@ "b" :> Num(y))] :
        x \in MinValue..MaxValue, y \in MinValue..MaxValue}

(* a level-1 table as display_level_1_allocations builds it, and the same
   table carrying Difference columns as its last columns *)
level_1_table(c, v) ==
    LET tactical == compute_tactical_allocations(c.strategic_allocations,
                        c.multipliers, c.multipliers.keys,
                        moderate_active_weight(Num(v))).val
        columns == strategic_tactical_columns(c.multipliers.keys)
    IN  Frame(c.strategic_allocations.keys, columns,
              [asset \in Range(c.strategic_allocations.keys) |->
                 [col \in Range(columns) |->
                    IF col[2] = "Strategic"
                    THEN c.strategic_allocations.at[asset][Position(c.multipliers.keys, col[1])]
                    ELSE tactical.at[asset][Position(c.multipliers.keys, col[1])]]])

carrying_differences(df, profiles) ==
    assign_differences(df, profiles,
                       [r \in Range(df.index) |-> [p \in Range(profiles) |-> NaN]],
                       "Difference")

DifferenceCalls ==
    {[fn |-> "add_difference_column",
      carries |-> carries,
      profiles |-> c.multipliers.keys,
      df |-> IF carries
             THEN carrying_differences(level_1_table(c, v), c.multipliers.keys)
             ELSE level_1_table(c, v)] :
        c \in Configs, v \in MinValue..MaxValue, carries \in BOOLEAN}

Idle == <<>>

MainIdle ==
    /\ config_json = Idle
    /\ config = Idle
    /\ show_active_weights = Idle
    /\ moderate_equities_active = Idle
    /\ equities_style_active = Idle
    /\ fixed_income_sector_active = Idle
    /\ validation = Idle
    /\ level_1_allocation_df = Idle
    /\ level_1_shown = Idle
    /\ equities_df = Idle
    /\ fixed_income_df = Idle
    /\ df_total_allocations = Idle
    /\ total_shown = Idle
    /\ raised = Idle

CallInit ==
    /\ call \in TacticalCalls \cup MainTacticalCalls \cup Level2Calls
                \cup ValidateCalls \cup DifferenceCalls
    /\ ret = Pending
    /\ MainIdle

CallTactical ==
    /\ call.fn = "compute_tactical_allocations"
    /\ ret = Pending
    /\ ret' = compute_tactical_allocations(call.strategic_allocations,
                  call.multipliers, call.profiles, call.active_weights)
    /\ UNCHANGED <<call, mainVars>>

CallLevel2 ==
    /\ call.fn = "compute_level_2_tactical_allocations"
    /\ ret = Pending
    /\ ret' = compute_level_2_tactical_allocations(call.base_allocations,
                                                   call.active_weights)
    /\ UNCHANGED <<call, mainVars>>

CallValidate ==
    /\ call.fn = "input_active_weights"
    /\ ret = Pending
    /\ ret' = Ok([returned |-> input_active_weights(call.sliders),
                  stock_style |-> stock_style_status(call.sliders)])
    /\ UNCHANGED <<call, mainVars>>

CallDifference ==
    /\ call.fn = "add_difference_column"
    /\ ret = Pending
    /\ ret' = Ok(add_difference_column(call.df, call.profiles))
    /\ UNCHANGED <<call, mainVars>>

CallNext == CallTactical \/ CallLevel2 \/ CallValidate \/ CallDifference

SpecCalls == CallInit /\ [][CallNext]_vars

(***************************************************************************)
(* main: one pass of the script over the config and the widget values.     *)
(***************************************************************************)
NotComputed == <<>>

(* json.load of the file *)
load_config == config_json

Aborted(e, statuses, level_1) ==
    [validation |-> statuses,
     level_1_allocation_df |-> level_1.df, level_1_shown |-> level_1.shown,
     equities_df |-> NotComputed, fixed_income_df |-> NotComputed,
     df_total_allocations |-> NotComputed, total_shown |-> NotComputed,
     raised |-> e]

main(cfg, show, number_input, equities_sliders, fixed_income_sliders) ==
    LET multipliers == cfg.multipliers
        profiles == multipliers.keys
        strategic_allocations == cfg.strategic_allocations
        equities_size_style == cfg.equities_size_style
        fixed_income_sector == cfg.fixed_income_sector
        tactical_allocations ==
            compute_tactical_allocations(strategic_allocations, multipliers,
                                         profiles, moderate_active_weight(number_input))
        level_1 == display_level_1_allocations(strategic_allocations,
                       tactical_allocations.val, profiles, show)
        equities_input == input_active_weights(equities_sliders)
        fixed_income_input == input_active_weights(fixed_income_sliders)
        statuses == [equities |-> equities_input.status,
                     fixed_income |-> fixed_income_input.status]
        tactical_equities_size_style ==
            compute_level_2_tactical_allocations(equities_size_style,
                                                 equities_input.weights)
        tactical_fixed_income_sector ==
            compute_level_2_tactical_allocations(fixed_income_sector,
                                                 fixed_income_input.weights)
        equities_frame == level_2_frame(equities_size_style,
                                        tactical_equities_size_style.val)
        fixed_income_frame == level_2_frame(fixed_income_sector,
                                            tactical_fixed_income_sector.val)
        total == compute_total_allocations(level_1.df, equities_frame,
                                           fixed_income_frame, strategic_allocations)
        final == display_asset_allocations(total, profiles, show, TRUE)
    IN  IF tactical_allocations.err # "none"
        THEN Aborted(tactical_allocations.err, NotComputed,
                     [df |-> NotComputed, shown |-> NotComputed])
        ELSE IF tactical_equities_size_style.err # "none"
        THEN Aborted(tactical_equities_size_style.err, statuses, level_1)
        ELSE IF tactical_fixed_income_sector.err # "none"
        THEN Aborted(tactical_fixed_income_sector.err, statuses, level_1)
        ELSE [validation |-> statuses,
              level_1_allocation_df |-> level_1.df,
              level_1_shown |-> level_1.shown,
              equities_df |-> equities_frame,
              fixed_income_df |-> fixed_income_frame,
              df_total_allocations |-> final.df,
              total_shown |-> final.shown,
              raised |-> final.raised]

(* the pass still reads the number input's value of the pass before *)
Rerun_lagging(show, number_input, equities_sliders, fixed_income_sliders) ==
    \E pass \in {main(config, show, moderate_equities_active, equities_sliders,
                     fixed_income_sliders)} :
    /\ show_active_weights' = show
    /\ moderate_equities_active' = number_input
    /\ equities_style_active' = equities_sliders
    /\ fixed_income_sector_active' = fixed_income_sliders
    /\ validation' = pass.validation
    /\ level_1_allocation_df' = pass.level_1_allocation_df
    /\ level_1_shown' = pass.level_1_shown
    /\ equities_df' = pass.equities_df
    /\ fixed_income_df' = pass.fixed_income_df
    /\ df_total_allocations' = pass.df_total_allocations
    /\ total_shown' = pass.total_shown
    /\ raised' = pass.raised
    /\ config' = load_config
    /\ UNCHANGED <<config_json, call, ret>>

(* the script runs from the top with the widget values show, number_input and
   the two slider groups; the config is read again and the file is not written *)
Rerun(show, number_input, equities_sliders, fixed_income_sliders) ==
    \E pass \in {main(config, show, number_input, equities_sliders,
                     fixed_income_sliders)} :
    /\ show_active_weights' = show
    /\ moderate_equities_active' = number_input
    /\ equities_style_active' = equities_sliders
    /\ fixed_income_sector_active' = fixed_income_sliders
    /\ validation' = pass.validation
    /\ level_1_allocation_df' = pass.level_1_allocation_df
    /\ level_1_shown' = pass.level_1_shown
    /\ equities_df' = pass.equities_df
    /\ fixed_income_df' = pass.fixed_income_df
    /\ df_total_allocations' = pass.df_total_allocations
    /\ total_shown' = pass.total_shown
    /\ raised' = pass.raised
    /\ config' = load_config
    /\ UNCHANGED <<config_json, call, ret>>

(* the first run: every widget at its default *)
Init ==
    /\ call = Idle
    /\ ret = Idle
    /\ config_json \in Configs
    /\ config = load_config
    /\ show_active_weights = FALSE
    /\ moderate_equities_active = config.moderate_equities_active
    /\ equities_style_active = config.default_equities_active_weight
    /\ fixed_income_sector_active = config.default_fixed_income_active_weight
    /\ LET pass == main(config, FALSE, config.moderate_equities_active,
                        config.default_equities_active_weight,
                        config.default_fixed_income_active_weight) IN
       /\ validation = pass.validation
       /\ level_1_allocation_df = pass.level_1_allocation_df
       /\ level_1_shown = pass.level_1_shown
       /\ equities_df = pass.equities_df
       /\ fixed_income_df = pass.fixed_income_df
       /\ df_total_allocations = pass.df_total_allocations
       /\ total_shown = pass.total_shown
       /\ raised = pass.raised

NumberInputValues ==
    {Num(x) : x \in {y \in MinValue..MaxValue : y <= InputBound /\ 0 - y <= InputBound}}
SliderValues ==
    {Num(x) : x \in {y \in MinValue..MaxValue : y <= SliderBound /\ 0 - y <= SliderBound}}

ToggleShowActiveWeights ==
    Rerun(~show_active_weights, moderate_equities_active,
          equities_style_active, fixed_income_sector_active)

SetModerateEquitiesActive ==
    \E v \in NumberInputValues :
        /\ v # moderate_equities_active
        /\ Rerun(show_active_weights, v, equities_style_active,
                 fixed_income_sector_active)

MoveEquitiesSlider ==
    \E col \in Range(equities_style_active.keys), v \in SliderValues :
        /\ v # equities_style_active.at[col]
        /\ Rerun(show_active_weights, moderate_equities_active,
                 Put(equities_style_active, col, v), fixed_income_sector_active)

MoveFixedIncomeSlider ==
    \E col \in Range(fixed_income_sector_active.keys), v \in SliderValues :
        /\ v # fixed_income_sector_active.at[col]
        /\ Rerun(show_active_weights, moderate_equities_active,
                 equities_style_active, Put(fixed_income_sector_active, col, v))

Next ==
    \/ ToggleShowActiveWeights
    \/ SetModerateEquitiesActive
    \/ MoveEquitiesSlider
    \/ MoveFixedIncomeSlider

Spec == Init /\ [][Next]_vars

(***************************************************************************)
(* Properties of the direct calls (SpecCalls).                             *)
(***************************************************************************)
Returned(fn) == call.fn = fn /\ ret # Pending

(* the group of a level-1 class *)
ClassGroup(a) ==
    CASE a = "Equities" -> "equities"
      [] a = "Fixed Income" -> "fixed_income"
      [] a = "Cash" -> "cash"

ScenarioCall ==
    /\ call.fn = "compute_tactical_allocations"
    /\ call.strategic_allocations = ConfigA.strategic_allocations
    /\ call.multipliers = ConfigA.multipliers
    /\ call.active_weights.equities = Num(2)

(* C1: compute_tactical_allocations returns the keys of the strategic table in
   their order, one value per profile in profile order, and for every class a
   and position i the value strategic[a][i] + multiplier[profiles[i]] *
   activeWeight[group of a]; Equities [70,60,50] with multipliers
   [1.5,1.0,0.5] and equities weight +2 gives [73,62,51]. *)
C1_TacticalFormula ==
    Returned("compute_tactical_allocations") =>
        /\ ret.err = "none"
        /\ ret.val.keys = call.strategic_allocations.keys
        /\ DOMAIN ret.val.at = Range(call.strategic_allocations.keys)
        /\ \A a \in Range(call.strategic_allocations.keys) :
              /\ Len(ret.val.at[a]) = Len(call.profiles)
              /\ \A i \in 1..Len(call.profiles) :
                    ret.val.at[a][i] * Scale =
                        call.strategic_allocations.at[a][i] * Scale
                        + call.multipliers.at[call.profiles[i]]
                          * call.active_weights[ClassGroup(a)]
        /\ (ScenarioCall => ret.val.at["Equities"] = <<Num(73), Num(62), Num(51)>>)

C1_Witness ==
    /\ ScenarioCall
    /\ call.active_weights.fixed_income = Num(-2)
    /\ ret # Pending
    /\ ret.val.at["Equities"] = <<Num(73), Num(62), Num(51)>>
    /\ ret.val.at["Fixed Income"] = <<Num(22), Num(33), Num(44)>>

(* C4: whenever compute_level_2_tactical_allocations returns for an
   activeWeights mapping whose values sum to 0, the values of the returned
   mapping sum to the sum of the baseline's values. *)
C4_ZeroSumPreservesTotal ==
    (/\ Returned("compute_level_2_tactical_allocations")
     /\ ret.err = "none"
     /\ SumSeq(Values(call.active_weights)) = 0)
        => SumSeq(Values(ret.val)) = SumSeq(Values(call.base_allocations))

CoversBaseline ==
    Range(call.base_allocations.keys) \subseteq Range(call.active_weights.keys)

(* C5: compute_level_2_tactical_allocations has two outcomes: with every
   baseline key present in activeWeights it returns a mapping over exactly the
   baseline's keys with tactical[k] = baseline[k] + activeWeights[k]; with a
   baseline key missing it raises KeyError and returns no mapping. *)
C5_TwoOutcomes ==
    Returned("compute_level_2_tactical_allocations") =>
        IF CoversBaseline
        THEN /\ ret.err = "none"
             /\ DOMAIN ret.val.at = Range(call.base_allocations.keys)
             /\ Range(ret.val.keys) = Range(call.base_allocations.keys)
             /\ \A k \in Range(call.base_allocations.keys) :
                   ret.val.at[k] = call.base_allocations.at[k]
                                   + call.active_weights.at[k]
        ELSE /\ ret.err = "KeyError"
             /\ ret.val = EmptyDict

(* the first baseline key is present with a non-zero weight, a later one is
   missing: the call fails although a part could have been applied *)
C5_Witness ==
    /\ Returned("compute_level_2_tactical_allocations")
    /\ Has(call.active_weights, call.base_allocations.keys[1])
    /\ call.active_weights.at[call.base_allocations.keys[1]] # 0
    /\ ~Has(call.active_weights, call.base_allocations.keys[2])
    /\ ret.err = "KeyError"
    /\ ret.val = EmptyDict

(* C6: compute_level_2_tactical_allocations raises KeyError whenever
   activeWeights holds a key that the baseline does not hold. *)
C6_ExtraKeyRaises ==
    (/\ Returned("compute_level_2_tactical_allocations")
     /\ ~(Range(call.active_weights.keys) \subseteq Range(call.base_allocations.keys)))
        => ret.err = "KeyError"

(* C8: the weight validation reports success exactly when the values sum to 0
   and error for every other sum, in input_active_weights and in the inline
   check of src/app.py alike: {a: 3, b: -2} fails, {a: 5, b: -5} passes, and a
   sum one point off zero fails. *)
C8_ValidationExact ==
    Returned("input_active_weights") =>
        LET a == call.sliders.at["a"]
            b == call.sliders.at["b"] IN
        /\ (ret.val.returned.status = "success") <=> (a = 0 - b)
        /\ (ret.val.returned.status = "error") <=> (a # 0 - b)
        /\ ret.val.stock_style = ret.val.returned.status
        /\ (a = Num(3) /\ b = Num(-2) => ret.val.returned.status = "error")
        /\ (a = Num(5) /\ b = Num(-5) => ret.val.returned.status = "success")

C8_Witness ==
    /\ Returned("input_active_weights")
    /\ call.sliders.at["a"] = Num(3)
    /\ call.sliders.at["b"] = Num(-2)
    /\ ret.val.returned.status = "error"
    /\ ret.val.stock_style = "error"

(* the strategic level-1 values of every profile sum to 100 *)
StrategicSumsTo100(strategic_allocations, profiles) ==
    \A i \in 1..Len(profiles) :
        strategic_allocations.at["Equities"][i]
        + strategic_allocations.at["Fixed Income"][i]
        + strategic_allocations.at["Cash"][i] = Num(Percent)

(* C2: for a config whose strategic level-1 values sum to 100 per profile and
   every whole number-input value in [-10,10], the tactical values main
   computes sum to 100 for every profile and tactical Cash equals strategic
   Cash. *)
C2_Level1SumsTo100 ==
    (/\ Returned("compute_tactical_allocations")
     /\ call.origin = "main"
     /\ StrategicSumsTo100(call.strategic_allocations, call.profiles))
        => /\ ret.err = "none"
           /\ \A i \in 1..Len(call.profiles) :
                 ret.val.at["Equities"][i] + ret.val.at["Fixed Income"][i]
                 + ret.val.at["Cash"][i] = Num(Percent)
           /\ ret.val.at["Cash"] = call.strategic_allocations.at["Cash"]

C2_Witness ==
    /\ Returned("compute_tactical_allocations")
    /\ call.origin = "main"
    /\ call.strategic_allocations = ConfigA.strategic_allocations
    /\ call.active_weights.equities = Num(MinValue)
    /\ ret.val.at["Equities"] = <<Num(55), Num(50), Num(45)>>
    /\ ret.val.at["Fixed Income"] = <<Num(40), Num(45), Num(50)>>
    /\ ret.val.at["Cash"] = <<Num(5), Num(5), Num(5)>>

(* the columns (profile, Strategic), (profile, Tactical), (profile, Difference)
   per profile, in profile order *)
Interleaved(columns, profiles) ==
    /\ Len(columns) = 3 * Len(profiles)
    /\ \A i \in 1..Len(profiles) :
          /\ columns[3 * i - 2] = <<profiles[i], "Strategic">>
          /\ columns[3 * i - 1] = <<profiles[i], "Tactical">>
          /\ columns[3 * i] = <<profiles[i], "Difference">>

(* C10: add_difference_column returns a table with the rows and the Strategic
   and Tactical values of its input, the columns interleaved per profile as
   Strategic, Tactical, Difference, and Difference = Tactical - Strategic in
   every row, also when the input carries Difference columns already;
   Strategic 60 and Tactical 63 give Difference 3. *)
C10_DifferenceColumns ==
    Returned("add_difference_column") =>
        LET out == ret.val.result IN
        /\ Interleaved(out.columns, call.profiles)
        /\ out.index = call.df.index
        /\ \A r \in Range(out.index), p \in Range(call.profiles) :
              /\ out.data[r][<<p, "Strategic">>] = call.df.data[r][<<p, "Strategic">>]
              /\ out.data[r][<<p, "Tactical">>] = call.df.data[r][<<p, "Tactical">>]
              /\ out.data[r][<<p, "Difference">>] # NaN
              /\ out.data[r][<<p, "Difference">>]
                     = out.data[r][<<p, "Tactical">>] - out.data[r][<<p, "Strategic">>]
              /\ (/\ out.data[r][<<p, "Strategic">>] = Num(60)
                  /\ out.data[r][<<p, "Tactical">>] = Num(63))
                    => out.data[r][<<p, "Difference">>] = Num(3)

C10_Witness ==
    /\ Returned("add_difference_column")
    /\ call.carries
    /\ <<"Moderate", "Difference">> \in Range(call.df.columns)
    /\ call.df.data["Equities"][<<"Moderate", "Difference">>] = NaN
    /\ ret.val.result.data["Equities"][<<"Moderate", "Strategic">>] = Num(60)
    /\ ret.val.result.data["Equities"][<<"Moderate", "Tactical">>] = Num(63)
    /\ ret.val.result.data["Equities"][<<"Moderate", "Difference">>] = Num(3)

(***************************************************************************)
(* Properties of the passes of main (Spec).                                *)
(***************************************************************************)
StrategicTacticalColumns(df) ==
    {c \in Range(df.columns) : c[2] \in {"Strategic", "Tactical"}}

SubRowsSum(df, labels, c) == SumSeq([i \in 1..Len(labels) |-> df.data[labels[i]][c]])

(* C3: in the total table of a pass, for every profile and for Strategic and
   Tactical, the sub-class rows under Equities and under Fixed Income sum to
   the parent's row value. *)
C3_SubRowsSumToParent ==
    df_total_allocations # NotComputed =>
        \A c \in StrategicTacticalColumns(df_total_allocations) :
            /\ SubRowsSum(df_total_allocations, equities_df.index, c)
                   = df_total_allocations.data["Equities"][c]
            /\ SubRowsSum(df_total_allocations, fixed_income_df.index, c)
                   = df_total_allocations.data["Fixed Income"][c]

BaselinesSumTo100 ==
    /\ SumSeq(Values(config.equities_size_style)) = Num(Percent)
    /\ SumSeq(Values(config.fixed_income_sector)) = Num(Percent)

(* C3 amended: with level-2 baselines that sum to 100, the Strategic sub-class
   rows under a parent sum to the parent's Strategic value, and the Tactical
   sub-class rows sum to the parent's Tactical value whenever the weight
   validation of that parent's group reported success. *)
C3_SubRowsSumWhenValid ==
    (df_total_allocations # NotComputed /\ BaselinesSumTo100) =>
        \A c \in StrategicTacticalColumns(df_total_allocations) :
            /\ (c[2] = "Strategic" \/ validation.equities = "success")
                  => SubRowsSum(df_total_allocations, equities_df.index, c)
                         = df_total_allocations.data["Equities"][c]
            /\ (c[2] = "Strategic" \/ validation.fixed_income = "success")
                  => SubRowsSum(df_total_allocations, fixed_income_df.index, c)
                         = df_total_allocations.data["Fixed Income"][c]

(* a passing group with weights moved off zero, under a moved parent *)
C3_Witness ==
    /\ df_total_allocations # NotComputed
    /\ validation.equities = "success"
    /\ \E k \in Range(equities_style_active.keys) : equities_style_active.at[k] # 0
    /\ moderate_equities_active # 0
    /\ \A c \in StrategicTacticalColumns(df_total_allocations) :
          SubRowsSum(df_total_allocations, equities_df.index, c)
              = df_total_allocations.data["Equities"][c]

(* C7: in the total table, in every (profile, Strategic) and (profile,
   Tactical) column, a sub-class row equals its own percentage of that type
   times the parent's level-1 value / 100, and the rows Equities, Fixed Income
   and Cash equal the level-1 table's rows; own percentage 30 under a parent
   value of 62 gives 18.6. *)
C7_TotalRows ==
    df_total_allocations # NotComputed =>
        \A c \in StrategicTacticalColumns(df_total_allocations) :
            /\ \A a \in Range(Level1Classes) :
                  df_total_allocations.data[a][c] = level_1_allocation_df.data[a][c]
            /\ \A k \in Range(equities_df.index) :
                  df_total_allocations.data[k][c] * Percent * Scale
                      = equities_df.data[k][c[2]]
                        * level_1_allocation_df.data["Equities"][c]
            /\ \A k \in Range(fixed_income_df.index) :
                  df_total_allocations.data[k][c] * Percent * Scale
                      = fixed_income_df.data[k][c[2]]
                        * level_1_allocation_df.data["Fixed Income"][c]

(* 18.6 is 18 + 3/5 *)
C7_Witness ==
    /\ config = ConfigA
    /\ show_active_weights
    /\ df_total_allocations # NotComputed
    /\ equities_df.data["Large Cap Growth"]["Tactical"] = Num(30)
    /\ level_1_allocation_df.data["Equities"][<<"Moderate", "Tactical">>] = Num(62)
    /\ df_total_allocations.data["Large Cap Growth"][<<"Moderate", "Tactical">>]
           = Num(18) + (3 * Scale) \div 5
    /\ df_total_allocations.data["Cash"][<<"Moderate", "Tactical">>] = Num(5)

TacticalFromEntered(df, baseline, entered) ==
    /\ df # NotComputed
    /\ df.index = baseline.keys
    /\ \A k \in Range(baseline.keys) :
          /\ df.data[k]["Strategic"] = baseline.at[k]
          /\ df.data[k]["Tactical"] = baseline.at[k] + entered.at[k]

(* C9: whatever status the weight validation emits, the pass computes the
   level-2 tactical tables from the entered weights as they are and the total
   table from those: a failing group changes nothing but the status. *)
C9_ValidationAdvisory ==
    /\ validation.equities
           = (IF SumSeq(Values(equities_style_active)) = 0 THEN "success" ELSE "error")
    /\ validation.fixed_income
           = (IF SumSeq(Values(fixed_income_sector_active)) = 0 THEN "success" ELSE "error")
    /\ TacticalFromEntered(equities_df, config.equities_size_style,
                           equities_style_active)
    /\ TacticalFromEntered(fixed_income_df, config.fixed_income_sector,
                           fixed_income_sector_active)
    /\ df_total_allocations # NotComputed
    /\ \A c \in StrategicTacticalColumns(df_total_allocations) :
          /\ \A k \in Range(equities_df.index) :
                df_total_allocations.data[k][c] * Percent * Scale
                    = (config.equities_size_style.at[k]
                       + IF c[2] = "Tactical" THEN equities_style_active.at[k] ELSE 0)
                      * df_total_allocations.data["Equities"][c]
          /\ \A k \in Range(fixed_income_df.index) :
                df_total_allocations.data[k][c] * Percent * Scale
                    = (config.fixed_income_sector.at[k]
                       + IF c[2] = "Tactical" THEN fixed_income_sector_active.at[k] ELSE 0)
                      * df_total_allocations.data["Fixed Income"][c]

C9_Witness ==
    /\ config = ConfigA
    /\ validation.equities = "error"
    /\ validation.fixed_income = "error"
    /\ SumSeq(Values(equities_style_active)) # 0
    /\ TacticalFromEntered(equities_df, config.equities_size_style,
                           equities_style_active)
    /\ df_total_allocations # NotComputed
    /\ SubRowsSum(df_total_allocations, equities_df.index, <<"Moderate", "Tactical">>)
           # df_total_allocations.data["Equities"][<<"Moderate", "Tactical">>]

(* C11: display_asset_allocations and add_difference_column leave the table
   they are given as it was, so the level-1 table a pass returns from
   display_level_1_allocations has the columns (profile, Strategic) and
   (profile, Tactical) only, with show-active-weights on or off. *)
C11_Level1TableUntouched ==
    level_1_allocation_df # NotComputed =>
        /\ Len(level_1_allocation_df.columns) = 2 * Len(config.multipliers.keys)
        /\ \A c \in Range(level_1_allocation_df.columns) :
              c[2] \in {"Strategic", "Tactical"}

(* C14: the rows the final display step selects for highlighting are rows of
   the total table and are exactly its level-1 class rows, so the step ends
   without a lookup error, with show-active-weights on or off. *)
C14_HighlightedRowsAreLevel1Rows ==
    total_shown # NotComputed =>
        /\ Range(HighlightRows) \subseteq Range(total_shown.index)
        /\ Range(HighlightRows) = Range(config.strategic_allocations.keys)
        /\ raised = "none"

Occurrences(s, x) == Cardinality({i \in 1..Len(s) : s[i] = x})

(* C12: the rows of the total table are Equities, the equities sub-classes in
   the order of their level-2 table, Fixed Income, the fixed-income
   sub-classes in the order of theirs, then Cash, and every level-1 class of
   the strategic baseline is a row exactly once. *)
C12_RowOrder ==
    df_total_allocations # NotComputed =>
        LET idx == df_total_allocations.index
            ne == Len(config.equities_size_style.keys)
            nf == Len(config.fixed_income_sector.keys)
        IN  /\ Len(idx) = ne + nf + 3
            /\ idx[1] = "Equities"
            /\ \A i \in 1..ne : idx[1 + i] = config.equities_size_style.keys[i]
            /\ idx[ne + 2] = "Fixed Income"
            /\ \A i \in 1..nf : idx[ne + 2 + i] = config.fixed_income_sector.keys[i]
            /\ idx[ne + nf + 3] = "Cash"
            /\ equities_df.index = config.equities_size_style.keys
            /\ fixed_income_df.index = config.fixed_income_sector.keys
            /\ \A a \in Range(config.strategic_allocations.keys) : Occurrences(idx, a) = 1
            /\ total_shown.index = idx

C12_Witness ==
    /\ config = ConfigB
    /\ show_active_weights
    /\ equities_style_active # config.default_equities_active_weight
    /\ df_total_allocations # NotComputed
    /\ df_total_allocations.index
           = <<"Equities", "Large Cap Growth", "Small Value", "International: Emerging",
               "Fixed Income", "Tsys, CDs & GSEs", "Cash">>

(***************************************************************************)
(* The tables written out as functions of the config and of the current    *)
(* widget values.                                                          *)
(***************************************************************************)
ProfilesOf(cfg) == cfg.multipliers.keys

(* +1 for Equities, -1 for Fixed Income, 0 for Cash *)
TiltSign(a) == CASE a = "Equities" -> 1 [] a = "Fixed Income" -> -1 [] OTHER -> 0

Level1Value(cfg, w, a, p, typ) ==
    LET i == CHOOSE j \in 1..Len(ProfilesOf(cfg)) : ProfilesOf(cfg)[j] = p
        strategic == cfg.strategic_allocations.at[a][i]
        tactical == strategic + (TiltSign(a) * cfg.multipliers.at[p] * w) \div Scale
    IN  CASE typ = "Strategic" -> strategic
          [] typ = "Tactical" -> tactical
          [] typ = "Difference" -> tactical - strategic

OwnPercentage(baseline, entered, k, typ) ==
    IF typ = "Strategic" THEN baseline.at[k] ELSE baseline.at[k] + entered.at[k]

SubClassValue(cfg, w, parent, baseline, entered, k, p, typ) ==
    LET part(t) == (OwnPercentage(baseline, entered, k, t)
                    * Level1Value(cfg, w, parent, p, t)) \div (Percent * Scale)
    IN  IF typ = "Difference" THEN part("Tactical") - part("Strategic") ELSE part(typ)

TotalValue(cfg, w, eq, fi, r, p, typ) ==
    IF r \in Range(cfg.equities_size_style.keys)
    THEN SubClassValue(cfg, w, "Equities", cfg.equities_size_style, eq, r, p, typ)
    ELSE IF r \in Range(cfg.fixed_income_sector.keys)
    THEN SubClassValue(cfg, w, "Fixed Income", cfg.fixed_income_sector, fi, r, p, typ)
    ELSE Level1Value(cfg, w, r, p, typ)

(* the columns of a table kept by the pass: Strategic and Tactical per profile,
   and in show mode a Difference column per profile after all of them *)
KeptColumns(cfg, show) ==
    [i \in 1..(IF show THEN 3 ELSE 2) * Len(ProfilesOf(cfg)) |->
        IF i <= 2 * Len(ProfilesOf(cfg))
        THEN <<ProfilesOf(cfg)[(i + 1) \div 2],
               IF i % 2 = 1 THEN "Strategic" ELSE "Tactical">>
        ELSE <<ProfilesOf(cfg)[i - 2 * Len(ProfilesOf(cfg))], "Difference">>]

(* the columns of a displayed table *)
ShownColumns(cfg, show) ==
    IF show
    THEN [i \in 1..3 * Len(ProfilesOf(cfg)) |->
            <<ProfilesOf(cfg)[(i + 2) \div 3],
              CASE i % 3 = 1 -> "Strategic" [] i % 3 = 2 -> "Tactical"
                [] OTHER -> "Difference">>]
    ELSE KeptColumns(cfg, FALSE)

Level1Table(cfg, w, columns) ==
    [index |-> cfg.strategic_allocations.keys, columns |-> columns,
     data |-> [a \in Range(cfg.strategic_allocations.keys) |->
                 [c \in Range(columns) |-> Level1Value(cfg, w, a, c[1], c[2])]]]

Level2Table(baseline, entered) ==
    [index |-> baseline.keys, columns |-> <<"Strategic", "Tactical">>,
     data |-> [k \in Range(baseline.keys) |->
                 [t \in {"Strategic", "Tactical"} |->
                    OwnPercentage(baseline, entered, k, t)]]]

TotalTable(cfg, w, eq, fi, columns) ==
    LET idx == <<"Equities">> \o cfg.equities_size_style.keys \o <<"Fixed Income">>
               \o cfg.fixed_income_sector.keys \o <<"Cash">>
    IN  [index |-> idx, columns |-> columns,
         data |-> [r \in Range(idx) |->
                     [c \in Range(columns) |->
                        TotalValue(cfg, w, eq, fi, r, c[1], c[2])]]]

TablesFromInputs ==
    /\ level_1_allocation_df
           = Level1Table(config, moderate_equities_active,
                         KeptColumns(config, show_active_weights))
    /\ level_1_shown
           = Level1Table(config, moderate_equities_active,
                         ShownColumns(config, show_active_weights))
    /\ equities_df = Level2Table(config.equities_size_style, equities_style_active)
    /\ fixed_income_df
           = Level2Table(config.fixed_income_sector, fixed_income_sector_active)
    /\ df_total_allocations
           = TotalTable(config, moderate_equities_active, equities_style_active,
                        fixed_income_sector_active,
                        KeptColumns(config, show_active_weights))
    /\ total_shown
           = TotalTable(config, moderate_equities_active, equities_style_active,
                        fixed_income_sector_active,
                        ShownColumns(config, show_active_weights))

(* C13: whatever inputs were changed before (number input, sliders, toggle),
   the config tables are the ones of config.json as loaded, and the level-1,
   level-2 and total tables of the latest pass are the functions above of the
   config and the current widget values. *)
C13_TablesFromCurrentInputs ==
    /\ config = config_json
    /\ config \in Configs
    /\ TablesFromInputs

(* after at least four input changes: toggle on, number input, and a slider of
   each group moved away from the config's defaults *)
C13_Witness ==
    /\ config = ConfigB
    /\ show_active_weights
    /\ moderate_equities_active = Num(-1)
    /\ equities_style_active.at["Small Value"] = Num(1)
    /\ fixed_income_sector_active.at["Tsys, CDs & GSEs"] = Num(-1)
    /\ TablesFromInputs
    /\ level_1_allocation_df.data["Equities"][<<"Growth", "Tactical">>] = Num(78)
    /\ total_shown.data["Small Value"][<<"Growth", "Difference">>]
           = (Num(31) * Num(78) - Num(30) * Num(80)) \div (Percent * Scale)

====
